---- MODULE Spec2Model ----
(***************************************************************************)
(* A model of crates/uv-pypi-types/src/conflicts.rs: the conflict item,    *)
(* set and collection types, their schema (pyproject.toml) counterparts,   *)
(* the flat wire record both item types are (de)serialized through, and    *)
(* the resolution of the schema form into the internal form.               *)
(*                                                                         *)
(* Three specifications are given:                                         *)
(*   SpecWire  one wire record and the four item conversions;              *)
(*   Spec      a program that owns a standalone ConflictSet and two        *)
(*             Conflicts values and calls their constructors and methods;  *)
(*   SpecDoc   a document of wire records that is deserialized into the    *)
(*             internal or the schema form, resolved, queried and          *)
(*             serialized back.                                            *)
(***************************************************************************)
EXTENDS Naturals, Sequences, FiniteSets, Bags, TLC

VARIABLES
    wire,    \* SpecWire: the ConflictItemWire record at hand
    src,     \* SpecWire, SpecDoc: the value the record/document was serialized from
    cset,    \* Spec: the standalone ConflictSet the program owns, if any
    a,       \* Spec: a Conflicts value
    b,       \* Spec: another Conflicts value
    pushed,  \* Spec: history, the bag of sets handed to Conflicts::push so far
    doc,     \* SpecDoc: the document, a sequence of sequences of wire records
    val,     \* SpecDoc: the value the program holds, tagged with its type
    last     \* every specification: the last call, its argument and its result

vars == <<wire, src, cset, a, b, pushed, doc, val, last>>

----------------------------------------------------------------------------
(* Bounds of the model.                                                    *)

\* Spec: the number of items held by cset, a and b together.
MaxHeld == 4
\* Spec: the number of sets held by a and b together.
MaxPushed == 2
\* Spec, SpecVec: the length of a vector handed to a fallible set constructor.
MaxVec == 3
\* SpecDoc: the number of wire records of a document.
MaxRecords == 4
\* SpecDoc: the number of sets of a document.
MaxSets == 2

----------------------------------------------------------------------------
(* Values.                                                                 *)

None == [tag |-> "None"]
Some(v) == [tag |-> "Some", val |-> v]
Ok(v) == [tag |-> "Ok", val |-> v]
Err(e) == [tag |-> "Err", err |-> e]

\* The external identifier types, as small sets of names.  An extra and a
\* group may be spelled alike.
Packages == {"a", "b"}
ExtraNames == {"x", "y"}
GroupNames == {"x", "y"}

OptionOf(S) == {None} \cup {Some(v) : v \in S}

Extra(extra) == [tag |-> "Extra", name |-> extra]
Group(group) == [tag |-> "Group", name |-> group]
ConflictKind == {Extra(e) : e \in ExtraNames} \cup {Group(g) : g \in GroupNames}

ConflictItem == [package : Packages, kind : ConflictKind]
SchemaConflictItem == [package : OptionOf(Packages), kind : ConflictKind]
ConflictItemWire ==
    [package : OptionOf(Packages), extra : OptionOf(ExtraNames), group : OptionOf(GroupNames)]

\* All sequences over S of a length in lo..hi.
SeqsOf(S, lo, hi) == UNION {[1..n -> S] : n \in lo..hi}

----------------------------------------------------------------------------
(* ConflictItem, its borrowed view, and ConflictKind.                      *)

ItemFromExtra(package, extra) == [package |-> package, kind |-> Extra(extra)]
ItemFromGroup(package, group) == [package |-> package, kind |-> Group(group)]

ExtraRef(extra) == [tag |-> "ExtraRef", name |-> extra]
GroupRef(group) == [tag |-> "GroupRef", name |-> group]
ConflictKindRef == {ExtraRef(e) : e \in ExtraNames} \cup {GroupRef(g) : g \in GroupNames}
ConflictItemRef == [package : Packages, kind : ConflictKindRef]

\* ConflictKind::as_ref losing the variant.
KindAsRefNoVariant(kind) == ExtraRef(kind.name)

KindAsRef(kind) ==
    CASE kind.tag = "Extra" -> ExtraRef(kind.name)
      [] kind.tag = "Group" -> GroupRef(kind.name)

\* impl PartialEq<ConflictKindRef> for ConflictKind
KindEqRef(kind, other) == KindAsRef(kind) = other

ItemAsRef(item) == [package |-> item.package, kind |-> KindAsRef(item.kind)]

\* impl Equivalent<ConflictItem> for ConflictItemRef
ItemRefEquivalent(self, key) == ItemAsRef(key) = self

----------------------------------------------------------------------------
(* The wire record and the four conversions through it.                    *)

\* The internal conversion with the extra/group check moved before the
\* package check.
ItemTryFromWireKindFirst(w) ==
    CASE w.extra = None /\ w.group = None -> Err("MissingExtraAndGroup")
      [] w.extra # None /\ w.group # None -> Err("FoundExtraAndGroup")
      [] w.package = None -> Err("MissingPackage")
      [] w.extra # None /\ w.group = None -> Ok(ItemFromExtra(w.package.val, w.extra.val))
      [] w.extra = None /\ w.group # None -> Ok(ItemFromGroup(w.package.val, w.group.val))

\* The internal conversion without the (Some, Some) arm.
ItemTryFromWireLenient(w) ==
    IF w.package = None THEN Err("MissingPackage")
    ELSE CASE w.extra = None /\ w.group = None -> Err("MissingExtraAndGroup")
           [] w.extra # None -> Ok(ItemFromExtra(w.package.val, w.extra.val))
           [] w.extra = None /\ w.group # None -> Ok(ItemFromGroup(w.package.val, w.group.val))

\* impl TryFrom<ConflictItemWire> for ConflictItem
ItemTryFromWire(w) ==
    IF w.package = None THEN Err("MissingPackage")
    ELSE CASE w.extra = None /\ w.group = None -> Err("MissingExtraAndGroup")
           [] w.extra # None /\ w.group # None -> Err("FoundExtraAndGroup")
           [] w.extra # None /\ w.group = None -> Ok(ItemFromExtra(w.package.val, w.extra.val))
           [] w.extra = None /\ w.group # None -> Ok(ItemFromGroup(w.package.val, w.group.val))

\* impl From<ConflictItem> for ConflictItemWire
ItemIntoWire(item) ==
    CASE item.kind.tag = "Extra" ->
           [package |-> Some(item.package), extra |-> Some(item.kind.name), group |-> None]
      [] item.kind.tag = "Group" ->
           [package |-> Some(item.package), extra |-> None, group |-> Some(item.kind.name)]

\* impl TryFrom<ConflictItemWire> for SchemaConflictItem
SchemaItemTryFromWire(w) ==
    CASE w.extra = None /\ w.group = None -> Err("MissingExtraAndGroup")
      [] w.extra # None /\ w.group # None -> Err("FoundExtraAndGroup")
      [] w.extra # None /\ w.group = None ->
           Ok([package |-> w.package, kind |-> Extra(w.extra.val)])
      [] w.extra = None /\ w.group # None ->
           Ok([package |-> w.package, kind |-> Group(w.group.val)])

\* impl From<SchemaConflictItem> for ConflictItemWire
SchemaItemIntoWire(item) ==
    CASE item.kind.tag = "Extra" ->
           [package |-> item.package, extra |-> Some(item.kind.name), group |-> None]
      [] item.kind.tag = "Group" ->
           [package |-> item.package, extra |-> None, group |-> Some(item.kind.name)]

----------------------------------------------------------------------------
(* ConflictSet and SchemaConflictSet.                                      *)

\* ConflictSet::pair
ConflictSetPair(item1, item2) == <<item1, item2>>

\* ConflictSet::push
ConflictSetPush(set, item) == Append(set, item)

\* #[derive(Default)] on ConflictSet(Vec<ConflictItem>)
ConflictSetDefault == <<>>

\* #[derive(Default)] on SchemaConflictSet(Vec<SchemaConflictItem>)
SchemaConflictSetDefault == <<>>

\* The set constructor dropping repeated items.
ConflictSetTryFromDedup(items) ==
    CASE Len(items) = 0 -> Err("ZeroItems")
      [] Len(items) = 1 -> Err("OneItem")
      [] OTHER ->
           Ok(SelectSeq([i \in 1..Len(items) |->
                           IF \E j \in 1..(i - 1) : items[j] = items[i]
                           THEN None ELSE Some(items[i])],
                        LAMBDA o : o # None))

\* impl TryFrom<Vec<ConflictItem>> for ConflictSet
ConflictSetTryFrom(items) ==
    CASE Len(items) = 0 -> Err("ZeroItems")
      [] Len(items) = 1 -> Err("OneItem")
      [] OTHER -> Ok(items)

\* The schema set constructor without the OneItem arm.
SchemaConflictSetTryFromNonEmpty(items) ==
    CASE Len(items) = 0 -> Err("ZeroItems")
      [] OTHER -> Ok(items)

\* impl TryFrom<Vec<SchemaConflictItem>> for SchemaConflictSet
SchemaConflictSetTryFrom(items) ==
    CASE Len(items) = 0 -> Err("ZeroItems")
      [] Len(items) = 1 -> Err("OneItem")
      [] OTHER -> Ok(items)

\* ConflictSet::contains; kind is a ConflictKindRef
SetContains(set, package, kind) ==
    \E i \in 1..Len(set) : set[i].package = package /\ KindEqRef(set[i].kind, kind)

----------------------------------------------------------------------------
(* Deserialization.  A Vec<T> is deserialized element by element, in       *)
(* order, and the first element that fails fails the whole vector.         *)

RECURSIVE DeserializeItemVec(_)
\* Vec::<ConflictItem>::deserialize, each element through ConflictItemWire
DeserializeItemVec(ws) ==
    IF ws = <<>> THEN Ok(<<>>)
    ELSE LET head == ItemTryFromWire(Head(ws))
         IN  IF head.tag = "Err" THEN head
             ELSE LET rest == DeserializeItemVec(Tail(ws))
                  IN  IF rest.tag = "Err" THEN rest ELSE Ok(<<head.val>> \o rest.val)

RECURSIVE DeserializeSchemaItemVec(_)
\* Vec::<SchemaConflictItem>::deserialize, each element through ConflictItemWire
DeserializeSchemaItemVec(ws) ==
    IF ws = <<>> THEN Ok(<<>>)
    ELSE LET head == SchemaItemTryFromWire(Head(ws))
         IN  IF head.tag = "Err" THEN head
             ELSE LET rest == DeserializeSchemaItemVec(Tail(ws))
                  IN  IF rest.tag = "Err" THEN rest ELSE Ok(<<head.val>> \o rest.val)

\* The set deserializer checking the length before the records.
DeserializeConflictSetLengthFirst(ws) ==
    LET early == ConflictSetTryFrom(ws)
    IN  IF early.tag = "Err" THEN early ELSE DeserializeItemVec(ws)

\* impl Deserialize for ConflictSet
DeserializeConflictSet(ws) ==
    LET set == DeserializeItemVec(ws)
    IN  IF set.tag = "Err" THEN set ELSE ConflictSetTryFrom(set.val)

\* impl Deserialize for SchemaConflictSet
DeserializeSchemaConflictSet(ws) ==
    LET items == DeserializeSchemaItemVec(ws)
    IN  IF items.tag = "Err" THEN items ELSE SchemaConflictSetTryFrom(items.val)

RECURSIVE DeserializeConflicts(_)
\* #[derive(Deserialize)] on Conflicts(Vec<ConflictSet>)
DeserializeConflicts(d) ==
    IF d = <<>> THEN Ok(<<>>)
    ELSE LET head == DeserializeConflictSet(Head(d))
         IN  IF head.tag = "Err" THEN head
             ELSE LET rest == DeserializeConflicts(Tail(d))
                  IN  IF rest.tag = "Err" THEN rest ELSE Ok(<<head.val>> \o rest.val)

RECURSIVE DeserializeSchemaConflicts(_)
\* #[derive(Deserialize)] on SchemaConflicts(Vec<SchemaConflictSet>)
DeserializeSchemaConflicts(d) ==
    IF d = <<>> THEN Ok(<<>>)
    ELSE LET head == DeserializeSchemaConflictSet(Head(d))
         IN  IF head.tag = "Err" THEN head
             ELSE LET rest == DeserializeSchemaConflicts(Tail(d))
                  IN  IF rest.tag = "Err" THEN rest ELSE Ok(<<head.val>> \o rest.val)

----------------------------------------------------------------------------
(* Serialization: each item goes through its wire record.                  *)

\* #[derive(Serialize)] on ConflictSet
SerializeConflictSet(set) == [i \in 1..Len(set) |-> ItemIntoWire(set[i])]

\* #[derive(Serialize)] on SchemaConflictSet
SerializeSchemaConflictSet(set) == [i \in 1..Len(set) |-> SchemaItemIntoWire(set[i])]

\* #[derive(Serialize)] on Conflicts
SerializeConflicts(c) == [s \in 1..Len(c) |-> SerializeConflictSet(c[s])]

\* #[derive(Serialize)] on SchemaConflicts
SerializeSchemaConflicts(c) == [s \in 1..Len(c) |-> SerializeSchemaConflictSet(c[s])]

----------------------------------------------------------------------------
(* Conflicts and SchemaConflicts.                                          *)

\* Conflicts::empty, through the derived Default
ConflictsEmpty == <<>>

\* #[derive(Default)] on SchemaConflicts
SchemaConflictsDefault == <<>>

\* Conflicts::push
ConflictsPush(self, set) == Append(self, set)

\* The merge copying the sets of other instead of draining it.
ConflictsAppendCopy(self, other) == [self |-> self \o other, other |-> other]

\* Conflicts::append: both values after the call
ConflictsAppend(self, other) == [self |-> self \o other, other |-> <<>>]

\* Conflicts::contains; kind is a ConflictKindRef
ConflictsContains(self, package, kind) ==
    \E s \in 1..Len(self) : SetContains(self[s], package, kind)

\* The resolution letting the default package win over an explicit one.
ResolveItemDefaultWins(item, package) == [package |-> package, kind |-> item.kind]

\* The loop body of to_conflicts_with_package_name for one schema item.
ResolveItem(item, package) ==
    [package |-> IF item.package = None THEN package ELSE item.package.val,
     kind |-> item.kind]

RECURSIVE ResolveSets(_, _)
\* The outer loop of to_conflicts_with_package_name: Return(conflicts), or
\* Panic when ConflictSet::try_from(set).unwrap() meets an Err.
ResolveSets(sets, package) ==
    IF sets = <<>> THEN [tag |-> "Return", val |-> ConflictsEmpty]
    ELSE LET tool_uv_set == Head(sets)
             set == ConflictSetTryFrom(
                        [i \in 1..Len(tool_uv_set) |-> ResolveItem(tool_uv_set[i], package)])
         IN  IF set.tag = "Err" THEN [tag |-> "Panic"]
             ELSE LET rest == ResolveSets(Tail(sets), package)
                  IN  IF rest.tag = "Panic" THEN rest
                      ELSE [tag |-> "Return", val |-> <<set.val>> \o rest.val]

\* SchemaConflicts::to_conflicts_with_package_name
ToConflictsWithPackageName(self, package) == ResolveSets(self, package)

----------------------------------------------------------------------------
(* SpecWire: one wire record and the item conversions.                     *)

\* No call has been made yet.
NoCall == [op |-> "none"]
Call(op, arg, out) == [op |-> op, arg |-> arg, out |-> out]

\* A value together with the name of its type.
Typed(ty, v) == [ty |-> ty, val |-> v]

InitWire ==
    /\ wire \in ConflictItemWire
    /\ src = None
    /\ last = NoCall
    /\ cset = None /\ a = ConflictsEmpty /\ b = ConflictsEmpty /\ pushed = EmptyBag
    /\ doc = <<>> /\ val = None

\* ConflictItem::try_from(wire)
WireToItem ==
    /\ last' = Call("ConflictItem::try_from", wire, ItemTryFromWire(wire))
    /\ UNCHANGED <<wire, src, cset, a, b, pushed, doc, val>>

\* SchemaConflictItem::try_from(wire)
WireToSchemaItem ==
    /\ last' = Call("SchemaConflictItem::try_from", wire, SchemaItemTryFromWire(wire))
    /\ UNCHANGED <<wire, src, cset, a, b, pushed, doc, val>>

\* ConflictItemWire::from(item), for an item built from a (package, extra)
\* or (package, group) pair
ItemToWire ==
    \E item \in {ItemFromExtra(p, e) : p \in Packages, e \in ExtraNames}
                  \cup {ItemFromGroup(p, g) : p \in Packages, g \in GroupNames} :
        /\ wire' = ItemIntoWire(item)
        /\ src' = Some(Typed("ConflictItem", item))
        /\ last' = Call("ConflictItemWire::from", item, wire')
        /\ UNCHANGED <<cset, a, b, pushed, doc, val>>

\* ConflictItemWire::from(item), for a schema item
SchemaItemToWire ==
    \E item \in SchemaConflictItem :
        /\ wire' = SchemaItemIntoWire(item)
        /\ src' = Some(Typed("SchemaConflictItem", item))
        /\ last' = Call("ConflictItemWire::from", item, wire')
        /\ UNCHANGED <<cset, a, b, pushed, doc, val>>

NextWire == WireToItem \/ WireToSchemaItem \/ ItemToWire \/ SchemaItemToWire

SpecWire == InitWire /\ [][NextWire]_vars

FromWire == {"ConflictItem::try_from", "SchemaConflictItem::try_from"}

\* C3, as stated: both conversions answer FoundExtraAndGroup for a record with
\* both extra and group and MissingExtraAndGroup for one with neither, whether
\* or not package is present.
C3_SymmetricAlways ==
    last.op \in FromWire =>
        /\ (last.arg.extra # None /\ last.arg.group # None)
              => last.out = Err("FoundExtraAndGroup")
        /\ (last.arg.extra = None /\ last.arg.group = None)
              => last.out = Err("MissingExtraAndGroup")

\* C3, amended: the two answers are given by the schema conversion always and
\* by the internal conversion when package is present; the internal
\* conversion of a record without package answers MissingPackage instead.
C3_SymmetricWhenPackaged ==
    last.op \in FromWire =>
        LET w == last.arg
            packaged == last.op = "SchemaConflictItem::try_from" \/ w.package # None
        IN  /\ (packaged /\ w.extra # None /\ w.group # None)
                  => last.out = Err("FoundExtraAndGroup")
            /\ (packaged /\ w.extra = None /\ w.group = None)
                  => last.out = Err("MissingExtraAndGroup")
            /\ (~packaged /\ ((w.extra = None) <=> (w.group = None)))
                  => last.out = Err("MissingPackage")

\* The schema conversion has refused a record without package that has both
\* extra and group.
C3_Witness ==
    /\ last.op = "SchemaConflictItem::try_from"
    /\ last.arg.package = None /\ last.arg.extra # None /\ last.arg.group # None
    /\ last.out = Err("FoundExtraAndGroup")

\* C4: the internal conversion checks package first: MissingPackage whenever
\* package is absent; with package present MissingExtraAndGroup for neither,
\* FoundExtraAndGroup for both, else the item of the one field present.
C4_PackageFirst ==
    last.op = "ConflictItem::try_from" =>
        LET w == last.arg
        IN  IF w.package = None THEN last.out = Err("MissingPackage")
            ELSE /\ (w.extra = None /\ w.group = None)
                      => last.out = Err("MissingExtraAndGroup")
                 /\ (w.extra # None /\ w.group # None)
                      => last.out = Err("FoundExtraAndGroup")
                 /\ (w.extra # None /\ w.group = None)
                      => /\ last.out.tag = "Ok"
                         /\ last.out.val.package = w.package.val
                         /\ last.out.val.kind = [tag |-> "Extra", name |-> w.extra.val]
                 /\ (w.extra = None /\ w.group # None)
                      => /\ last.out.tag = "Ok"
                         /\ last.out.val.package = w.package.val
                         /\ last.out.val.kind = [tag |-> "Group", name |-> w.group.val]

\* The internal conversion has refused a record without package whose group
\* alone is present.
C4_Witness ==
    /\ last.op = "ConflictItem::try_from"
    /\ last.arg.package = None /\ last.arg.extra = None /\ last.arg.group # None
    /\ last.out = Err("MissingPackage")

----------------------------------------------------------------------------
(* SpecVec: one vector of items and the fallible set constructors.         *)

InitVec ==
    /\ \/ \E items \in SeqsOf(ConflictItem, 0, MaxVec) :
              val = Some(Typed("Vec<ConflictItem>", items))
       \/ \E items \in SeqsOf(SchemaConflictItem, 0, MaxVec) :
              val = Some(Typed("Vec<SchemaConflictItem>", items))
    /\ last = NoCall
    /\ wire = None /\ src = None /\ doc = <<>>
    /\ cset = None /\ a = ConflictsEmpty /\ b = ConflictsEmpty /\ pushed = EmptyBag

\* ConflictSet::try_from(items)
VecToSet ==
    /\ val.val.ty = "Vec<ConflictItem>"
    /\ last' = Call("ConflictSet::try_from", val.val.val, ConflictSetTryFrom(val.val.val))
    /\ UNCHANGED <<wire, src, cset, a, b, pushed, doc, val>>

\* SchemaConflictSet::try_from(items)
VecToSchemaSet ==
    /\ val.val.ty = "Vec<SchemaConflictItem>"
    /\ last' = Call("SchemaConflictSet::try_from", val.val.val,
                    SchemaConflictSetTryFrom(val.val.val))
    /\ UNCHANGED <<wire, src, cset, a, b, pushed, doc, val>>

NextVec == VecToSet \/ VecToSchemaSet

SpecVec == InitVec /\ [][NextVec]_vars

\* C2: both fallible set constructors answer ZeroItems for the empty vector,
\* OneItem for a vector of one item, and for a longer vector a set of exactly
\* the given items in the given order, repeated items included.
C2_TryFrom ==
    last.op \in {"ConflictSet::try_from", "SchemaConflictSet::try_from"} =>
        LET items == last.arg
        IN  /\ Len(items) = 0 => last.out = Err("ZeroItems")
            /\ Len(items) = 1 => last.out = Err("OneItem")
            /\ Len(items) >= 2 =>
                  /\ last.out.tag = "Ok"
                  /\ Len(last.out.val) = Len(items)
                  /\ \A i \in 1..Len(items) : last.out.val[i] = items[i]

\* A set has been built from a vector that repeats an item.
C2_Witness ==
    /\ last.op = "ConflictSet::try_from"
    /\ Len(last.arg) >= 2 /\ last.arg[1] = last.arg[2]
    /\ last.out.tag = "Ok"

----------------------------------------------------------------------------
(* Spec: a program that owns a standalone ConflictSet (cset) and two       *)
(* Conflicts values (a and b).                                             *)

RECURSIVE Items(_)
\* The number of items of all sets of a Conflicts value.
Items(c) == IF c = <<>> THEN 0 ELSE Len(Head(c)) + Items(Tail(c))

RECURSIVE BagOf(_)
\* The bag of the sets of a Conflicts value.
BagOf(c) == IF c = <<>> THEN EmptyBag ELSE SetToBag({Head(c)}) (+) BagOf(Tail(c))

\* The number of items the program holds.
Held == (IF cset = None THEN 0 ELSE Len(cset.val)) + Items(a) + Items(b)

\* The items the program builds sets of.
HeldItems == {ItemFromExtra("a", "x"), ItemFromGroup("b", "x")}

Init ==
    /\ cset = None
    /\ a = ConflictsEmpty
    /\ b = ConflictsEmpty
    /\ pushed = EmptyBag
    /\ last = NoCall
    /\ wire = None /\ src = None /\ doc = <<>> /\ val = None

\* cset = ConflictSet::pair(item1, item2)
SetPair ==
    \E item1, item2 \in HeldItems :
        /\ Items(a) + Items(b) + 2 <= MaxHeld
        /\ cset' = Some(ConflictSetPair(item1, item2))
        /\ last' = Call("ConflictSet::pair", <<item1, item2>>, cset'.val)
        /\ UNCHANGED <<a, b, pushed, wire, src, doc, val>>

\* cset.push(item)
SetPush ==
    \E item \in HeldItems :
        /\ cset # None
        /\ Held + 1 <= MaxHeld
        /\ cset' = Some(ConflictSetPush(cset.val, item))
        /\ last' = Call("ConflictSet::push", item, cset'.val)
        /\ UNCHANGED <<a, b, pushed, wire, src, doc, val>>

\* cset = ConflictSet::default()
SetDefault ==
    /\ cset' = Some(ConflictSetDefault)
    /\ last' = Call("ConflictSet::default", <<>>, cset'.val)
    /\ UNCHANGED <<a, b, pushed, wire, src, doc, val>>

\* SchemaConflictSet::default()
SchemaSetDefault ==
    /\ last' = Call("SchemaConflictSet::default", <<>>, SchemaConflictSetDefault)
    /\ UNCHANGED <<cset, a, b, pushed, wire, src, doc, val>>

\* ConflictSet::try_from(items); cset takes the set when there is one
SetTryFrom ==
    \E n \in 0..MaxVec :
        /\ Items(a) + Items(b) + n <= MaxHeld
        /\ \E items \in [1..n -> HeldItems] :
              LET out == ConflictSetTryFrom(items)
              IN  /\ cset' = IF out.tag = "Ok" THEN Some(out.val) ELSE cset
                  /\ last' = Call("ConflictSet::try_from", items, out)
        /\ UNCHANGED <<a, b, pushed, wire, src, doc, val>>

\* a.push(cset) or b.push(cset); the set is moved
PushSet ==
    \E self \in {"a", "b"} :
        /\ cset # None
        /\ Len(a) + Len(b) < MaxPushed
        /\ IF self = "a"
           THEN a' = ConflictsPush(a, cset.val) /\ b' = b
           ELSE b' = ConflictsPush(b, cset.val) /\ a' = a
        /\ pushed' = pushed (+) SetToBag({cset.val})
        /\ cset' = None
        /\ last' = Call("Conflicts::push", self, cset.val)
        /\ UNCHANGED <<wire, src, doc, val>>

\* a.append(&mut b) or b.append(&mut a)
AppendConflicts ==
    \E self \in {"a", "b"} :
        /\ IF self = "a"
           THEN LET r == ConflictsAppend(a, b) IN a' = r.self /\ b' = r.other
           ELSE LET r == ConflictsAppend(b, a) IN b' = r.self /\ a' = r.other
        /\ last' = Call("Conflicts::append", self, <<>>)
        /\ UNCHANGED <<cset, pushed, wire, src, doc, val>>

Next ==
    \/ SetPair
    \/ SetPush
    \/ SetDefault
    \/ SchemaSetDefault
    \/ SetTryFrom
    \/ PushSet
    \/ AppendConflicts

Spec == Init /\ [][Next]_vars

\* C1, as stated: every ConflictSet and SchemaConflictSet that exists,
\* standalone or held in a Conflicts, has at least 2 items.
C1_AtLeastTwoItems ==
    /\ cset # None => Len(cset.val) >= 2
    /\ \A s \in 1..Len(a) : Len(a[s]) >= 2
    /\ \A s \in 1..Len(b) : Len(b[s]) >= 2
    /\ last.op = "SchemaConflictSet::default" => Len(last.out) >= 2

\* C8: a.append(b) leaves in a its sets followed by those of b, each as it
\* was, and leaves b empty (and likewise b.append(a)); appending an empty
\* value changes nothing; and the sets held by a and b together are always
\* exactly the sets pushed.
C8_MergeDrains ==
    /\ [][last'.op = "Conflicts::append" =>
            LET self == IF last'.arg = "a" THEN a ELSE b
                other == IF last'.arg = "a" THEN b ELSE a
                self2 == IF last'.arg = "a" THEN a' ELSE b'
                other2 == IF last'.arg = "a" THEN b' ELSE a'
            IN  /\ Len(self2) = Len(self) + Len(other)
                /\ \A i \in 1..Len(self) : self2[i] = self[i]
                /\ \A j \in 1..Len(other) : self2[Len(self) + j] = other[j]
                /\ other2 = <<>>
                /\ other = <<>> => self2 = self]_vars
    /\ [](BagOf(a) (+) BagOf(b) = pushed)

\* b holds a set and a, which held another, has just been appended to it.
C8_Witness ==
    /\ last.op = "Conflicts::append" /\ last.arg = "b"
    /\ Len(b) = 2 /\ a = <<>>
    /\ b[1] # b[2]

----------------------------------------------------------------------------
(* SpecDoc: a document is written record by record, then deserialized      *)
(* into the internal or the schema form; a value held is resolved,         *)
(* queried, or serialized into the document again.                         *)

WireOf(package, extra, group) == [package |-> package, extra |-> extra, group |-> group]

\* The wire records documents are written of: the two well-formed records
\* with a package, a well-formed one without, and one for each way of being
\* ill-formed in extra/group.
DocWire ==
    { WireOf(Some("a"), Some("x"), None),
      WireOf(Some("a"), None, Some("x")),
      WireOf(None, None, Some("x")),
      WireOf(Some("a"), None, None),
      WireOf(Some("b"), Some("x"), Some("x")) }

RECURSIVE Records(_)
\* The number of wire records of a document.
Records(d) == IF d = <<>> THEN 0 ELSE Len(Head(d)) + Records(Tail(d))

InitDoc ==
    /\ doc = <<>>
    /\ val = None
    /\ src = None
    /\ last = NoCall
    /\ wire = None
    /\ cset = None /\ a = ConflictsEmpty /\ b = ConflictsEmpty /\ pushed = EmptyBag

\* The author opens a new set in the document.
WriteSet ==
    /\ last = NoCall
    /\ Len(doc) < MaxSets
    /\ doc' = Append(doc, <<>>)
    /\ UNCHANGED <<val, src, last, wire, cset, a, b, pushed>>

\* The author adds a record to the last set of the document.
WriteRecord ==
    \E w \in DocWire :
        /\ last = NoCall
        /\ doc # <<>>
        /\ Records(doc) < MaxRecords
        /\ doc' = [doc EXCEPT ![Len(doc)] = Append(@, w)]
        /\ UNCHANGED <<val, src, last, wire, cset, a, b, pushed>>

\* The document is read once: as written by its author, or as serialized.
Unread == last = NoCall \/ last.op = "serialize"

\* The value a call leaves the program with.
Holding(ty, out) == IF out.tag = "Ok" THEN Some(Typed(ty, out.val)) ELSE None

\* ConflictSet::deserialize on one set of the document
ReadSet ==
    \E k \in 1..Len(doc) :
        /\ Unread
        /\ LET out == DeserializeConflictSet(doc[k])
           IN  /\ last' = Call("ConflictSet::deserialize", doc[k], out)
               /\ val' = Holding("ConflictSet", out)
        /\ UNCHANGED <<doc, src, wire, cset, a, b, pushed>>

\* SchemaConflictSet::deserialize on one set of the document
ReadSchemaSet ==
    \E k \in 1..Len(doc) :
        /\ Unread
        /\ LET out == DeserializeSchemaConflictSet(doc[k])
           IN  /\ last' = Call("SchemaConflictSet::deserialize", doc[k], out)
               /\ val' = Holding("SchemaConflictSet", out)
        /\ UNCHANGED <<doc, src, wire, cset, a, b, pushed>>

\* Conflicts::deserialize on the document
ReadConflicts ==
    /\ Unread
    /\ LET out == DeserializeConflicts(doc)
       IN  /\ last' = Call("Conflicts::deserialize", doc, out)
           /\ val' = Holding("Conflicts", out)
    /\ UNCHANGED <<doc, src, wire, cset, a, b, pushed>>

\* SchemaConflicts::deserialize on the document
ReadSchemaConflicts ==
    /\ Unread
    /\ LET out == DeserializeSchemaConflicts(doc)
       IN  /\ last' = Call("SchemaConflicts::deserialize", doc, out)
           /\ val' = Holding("SchemaConflicts", out)
    /\ UNCHANGED <<doc, src, wire, cset, a, b, pushed>>

\* A program that reads no document starts from a derived Default value.
TakeDefault ==
    /\ last = NoCall
    /\ doc = <<>>
    /\ \E ty \in {"ConflictSet", "SchemaConflictSet", "Conflicts", "SchemaConflicts"} :
          /\ val' = Some(Typed(ty,
                        CASE ty = "ConflictSet" -> ConflictSetDefault
                          [] ty = "SchemaConflictSet" -> SchemaConflictSetDefault
                          [] ty = "Conflicts" -> ConflictsEmpty
                          [] ty = "SchemaConflicts" -> SchemaConflictsDefault))
          /\ last' = Call("default", ty, val'.val.val)
    /\ UNCHANGED <<doc, src, wire, cset, a, b, pushed>>

\* val.to_conflicts_with_package_name(&package)
Resolve ==
    \E package \in Packages :
        /\ val # None
        /\ val.val.ty = "SchemaConflicts"
        /\ LET out == ToConflictsWithPackageName(val.val.val, package)
           IN  /\ last' = Call("to_conflicts_with_package_name",
                               [self |-> val.val.val, package |-> package], out)
               /\ val' = IF out.tag = "Return" THEN Some(Typed("Conflicts", out.val))
                         ELSE None
        /\ UNCHANGED <<doc, src, wire, cset, a, b, pushed>>

\* val.contains(&package, kind)
Contains ==
    \E package \in Packages, kind \in ConflictKindRef :
        /\ src = None
        /\ val # None
        /\ val.val.ty = "Conflicts"
        /\ last' = Call("Conflicts::contains",
                        [self |-> val.val.val, package |-> package, kind |-> kind],
                        ConflictsContains(val.val.val, package, kind))
        /\ UNCHANGED <<doc, val, src, wire, cset, a, b, pushed>>

\* borrowed.equivalent(&key), for an item key of val
Equivalent ==
    \E borrowed \in ConflictItemRef :
        /\ src = None
        /\ val # None
        /\ val.val.ty = "Conflicts"
        /\ \E s \in 1..Len(val.val.val) : \E i \in 1..Len(val.val.val[s]) :
              LET key == val.val.val[s][i]
              IN  last' = Call("ConflictItemRef::equivalent",
                               [self |-> borrowed, key |-> key],
                               ItemRefEquivalent(borrowed, key))
        /\ UNCHANGED <<doc, val, src, wire, cset, a, b, pushed>>

\* val.serialize: the document becomes the serialized value
Write ==
    /\ val # None
    /\ doc' = CASE val.val.ty = "ConflictSet" -> <<SerializeConflictSet(val.val.val)>>
                [] val.val.ty = "SchemaConflictSet" ->
                     <<SerializeSchemaConflictSet(val.val.val)>>
                [] val.val.ty = "Conflicts" -> SerializeConflicts(val.val.val)
                [] val.val.ty = "SchemaConflicts" -> SerializeSchemaConflicts(val.val.val)
    /\ src' = val
    /\ last' = Call("serialize", val.val, doc')
    /\ UNCHANGED <<val, wire, cset, a, b, pushed>>

NextDoc ==
    \/ WriteSet
    \/ WriteRecord
    \/ ReadSet
    \/ ReadSchemaSet
    \/ ReadConflicts
    \/ ReadSchemaConflicts
    \/ TakeDefault
    \/ Resolve
    \/ Contains
    \/ Equivalent
    \/ Write

SpecDoc == InitDoc /\ [][NextDoc]_vars

----------------------------------------------------------------------------
(* Properties of SpecDoc.                                                  *)

\* The type a deserializing call yields.
ReadType(op) ==
    CASE op = "ConflictSet::deserialize" -> "ConflictSet"
      [] op = "SchemaConflictSet::deserialize" -> "SchemaConflictSet"
      [] op = "Conflicts::deserialize" -> "Conflicts"
      [] op = "SchemaConflicts::deserialize" -> "SchemaConflicts"
      [] OTHER -> "none"

ExactlyOneKind(w) == (w.extra = None) # (w.group = None)

\* C5, as stated, at the set and collection levels: serialization yields
\* records with exactly one of extra/group, and deserializing a serialized
\* ConflictSet, SchemaConflictSet, Conflicts or SchemaConflicts into its own
\* type yields a value equal to the one serialized.
C5_RoundTrip ==
    /\ last.op = "serialize" =>
          \A s \in 1..Len(doc) : \A i \in 1..Len(doc[s]) : ExactlyOneKind(doc[s][i])
    /\ (src # None /\ ReadType(last.op) = src.val.ty) =>
          /\ last.out.tag = "Ok"
          /\ last.out.val = src.val.val

\* The item level of C5, under SpecWire: the conversion to the wire record
\* sets exactly one of extra/group, and converting back yields the item.
ItemRoundTrip ==
    /\ last.op = "ConflictItemWire::from" => ExactlyOneKind(last.out)
    /\ (src # None /\ src.val.ty = "ConflictItem" /\ last.op = "ConflictItem::try_from")
          => last.out = Ok(src.val.val)
    /\ (src # None /\ src.val.ty = "SchemaConflictItem"
            /\ last.op = "SchemaConflictItem::try_from")
          => last.out = Ok(src.val.val)

\* C6: resolution with default package d yields as many sets, in order, each
\* with as many items, in order; every item keeps its kind, keeps its own
\* package when it has one, and takes d when it has none.
C6_Resolution ==
    last.op = "to_conflicts_with_package_name" =>
        LET schema == last.arg.self
            d == last.arg.package
        IN  /\ last.out.tag = "Return"
            /\ Len(last.out.val) = Len(schema)
            /\ \A s \in 1..Len(schema) :
                  /\ Len(last.out.val[s]) = Len(schema[s])
                  /\ \A i \in 1..Len(schema[s]) :
                        LET item == schema[s][i]
                            got == last.out.val[s][i]
                        IN  /\ got.kind = item.kind
                            /\ item.package # None => got.package = item.package.val
                            /\ item.package = None => got.package = d

\* Two sets have been resolved with default b: the first has an item of
\* package a, the second one without a package.
C6_Witness ==
    /\ last.op = "to_conflicts_with_package_name"
    /\ last.arg.package = "b"
    /\ Len(last.arg.self) = 2
    /\ last.arg.self[1][1].package = Some("a")
    /\ last.arg.self[2][1].package = None
    /\ last.out.tag = "Return"
    /\ last.out.val[1][1].package = "a"
    /\ last.out.val[2][1].package = "b"

\* C7: resolution of a SchemaConflicts value, deserialized or Default, never
\* panics on the unwrap of ConflictSet::try_from.
C7_ResolutionNeverPanics ==
    last.op = "to_conflicts_with_package_name" => last.out.tag # "Panic"

\* A deserialized schema value whose one set has the least length, 2, has
\* been resolved.
C7_Witness ==
    /\ last.op = "to_conflicts_with_package_name"
    /\ src = None
    /\ Len(last.arg.self) = 1 /\ Len(last.arg.self[1]) = 2
    /\ last.arg.self = DeserializeSchemaConflicts(doc).val
    /\ last.out.tag = "Return"

\* C9: contains(package, kind) is true iff some set has an item of that
\* package whose kind is of the same variant and name; it is false for the
\* empty Conflicts; and a borrowed item is equivalent to an owned one iff
\* package, variant and name agree.
C9_Contains ==
    /\ last.op = "Conflicts::contains" =>
          LET self == last.arg.self
              variant == IF last.arg.kind.tag = "ExtraRef" THEN "Extra" ELSE "Group"
          IN  /\ last.out =
                    (\E s \in 1..Len(self) : \E i \in 1..Len(self[s]) :
                        /\ self[s][i].package = last.arg.package
                        /\ self[s][i].kind.tag = variant
                        /\ self[s][i].kind.name = last.arg.kind.name)
              /\ self = <<>> => last.out = FALSE
    /\ last.op = "ConflictItemRef::equivalent" =>
          LET borrowed == last.arg.self
              key == last.arg.key
          IN  last.out =
                    (/\ borrowed.package = key.package
                     /\ borrowed.kind.name = key.kind.name
                     /\ (borrowed.kind.tag = "ExtraRef") = (key.kind.tag = "Extra"))

\* A lookup of the group x of package a has failed on a value that holds
\* the extra x of package a.
C9_Witness ==
    /\ last.op = "Conflicts::contains"
    /\ last.arg.package = "a" /\ last.arg.kind = [tag |-> "GroupRef", name |-> "x"]
    /\ \E s \in 1..Len(last.arg.self) : \E i \in 1..Len(last.arg.self[s]) :
          last.arg.self[s][i] = [package |-> "a", kind |-> [tag |-> "Extra", name |-> "x"]]
    /\ last.out = FALSE

\* The first record of ws, in order, that the item conversion refuses.
FirstInvalid(ws, Convert(_)) ==
    LET bad == {i \in 1..Len(ws) : Convert(ws[i]).tag = "Err"}
    IN  IF bad = {} THEN 0 ELSE CHOOSE i \in bad : \A j \in bad : i <= j

SetOutcome(ws, Convert(_), out) ==
    LET k == FirstInvalid(ws, Convert)
    IN  CASE k # 0 -> out = Convert(ws[k])
          [] k = 0 /\ Len(ws) = 0 -> out = Err("ZeroItems")
          [] k = 0 /\ Len(ws) = 1 -> out = Err("OneItem")
          [] OTHER -> /\ out.tag = "Ok"
                      /\ Len(out.val) = Len(ws)
                      /\ \A i \in 1..Len(ws) : Ok(out.val[i]) = Convert(ws[i])

\* C10: deserializing a set fails with the error of the first invalid
\* record, whatever the number of records; with all records valid it fails
\* with ZeroItems/OneItem for 0/1 records and else yields all items in
\* order; and a document with a failing set fails as a whole.
C10_SetDeserialization ==
    /\ last.op = "ConflictSet::deserialize" =>
          SetOutcome(last.arg, ItemTryFromWire, last.out)
    /\ last.op = "SchemaConflictSet::deserialize" =>
          SetOutcome(last.arg, SchemaItemTryFromWire, last.out)
    /\ last.op = "Conflicts::deserialize" =>
          /\ (\E s \in 1..Len(last.arg) :
                  FirstInvalid(last.arg[s], ItemTryFromWire) # 0 \/ Len(last.arg[s]) < 2)
                => last.out.tag = "Err"
          /\ last.out.tag = "Err" => val = None
    /\ last.op = "SchemaConflicts::deserialize" =>
          /\ (\E s \in 1..Len(last.arg) :
                  FirstInvalid(last.arg[s], SchemaItemTryFromWire) # 0
                    \/ Len(last.arg[s]) < 2)
                => last.out.tag = "Err"
          /\ last.out.tag = "Err" => val = None

\* A set of one valid record followed by a record without package has
\* failed with MissingPackage, not OneItem.
C10_Witness ==
    /\ last.op = "ConflictSet::deserialize"
    /\ Len(last.arg) = 2
    /\ ItemTryFromWire(last.arg[1]).tag = "Ok"
    /\ last.arg[2].package = None
    /\ last.out = Err("MissingPackage")

====
